---- MODULE Spec2Model ----
(***************************************************************************)
(* dotsecrets: the secret resolution cache (SecretsManager), the access    *)
(* proxy (secrets), the bulk preload (preloadAllSecrets) and the chainable *)
(* value wrappers (SecretValue, NumberSecretValue, BooleanSecretValue,     *)
(* JsonSecretValue).                                                       *)
(*                                                                         *)
(* Strings are sequences of one-character strings, so that startsWith,     *)
(* trim, toUpperCase, Number(), parseBoolean and RegExp.test are computed  *)
(* character by character.  Numbers are fixed-point integers scaled by     *)
(* DecimalScale (one fractional digit).                                    *)
(***************************************************************************)
EXTENDS Integers, Sequences, FiniteSets, TLC

\* ------------------------------------------------------------------ bounds
\* Longest operator chain applied to one wrapper (SpecChain).
MaxChain == 2
\* plugin.getSecret calls in flight at one time.
MaxPending == 2
\* Writes to process.env and state changes of the remote service in one
\* behaviour.
MaxEnvWrites == 1
\* Provider swaps in one behaviour.
MaxSwaps == 1
\* The longest string the engine can build (stands for V8's maximum string
\* length; String.prototype.replace throws a RangeError beyond it).
MaxValueLen == 12

\* One fractional decimal digit is kept by the fixed-point numbers.
DecimalScale == 2 * 5

\* ------------------------------------------------------------- characters
LowerChars == <<"a","b","c","d","e","f","g","h","i","j","k","l","m",
                "n","o","p","q","r","s","t","u","v","w","x","y","z">>
UpperChars == <<"A","B","C","D","E","F","G","H","I","J","K","L","M",
                "N","O","P","Q","R","S","T","U","V","W","X","Y","Z">>
DigitChars == <<"0","1","2","3","4","5","6","7","8","9">>

IsLower(c) == \E i \in 1..26 : LowerChars[i] = c
IsUpper(c) == \E i \in 1..26 : UpperChars[i] = c
IsDigit(c) == \E i \in 1..10 : DigitChars[i] = c
IsSpace(c) == c = " "
DigitVal(c) == (CHOOSE i \in 1..10 : DigitChars[i] = c) - 1

ToUpperChar(c) == IF IsLower(c) THEN UpperChars[CHOOSE i \in 1..26 : LowerChars[i] = c] ELSE c
ToLowerChar(c) == IF IsUpper(c) THEN LowerChars[CHOOSE i \in 1..26 : UpperChars[i] = c] ELSE c

\* String.prototype.toUpperCase / toLowerCase
StrUpper(s) == [i \in 1..Len(s) |-> ToUpperChar(s[i])]
StrLower(s) == [i \in 1..Len(s) |-> ToLowerChar(s[i])]

\* String.prototype.trim
RECURSIVE TrimLeft(_)
TrimLeft(s) == IF s # <<>> /\ IsSpace(Head(s)) THEN TrimLeft(Tail(s)) ELSE s
RECURSIVE TrimRight(_)
TrimRight(s) == IF s # <<>> /\ IsSpace(s[Len(s)]) THEN TrimRight(SubSeq(s, 1, Len(s) - 1)) ELSE s
StrTrim(s) == TrimRight(TrimLeft(s))

\* String.prototype.startsWith
StartsWith(s, p) == Len(s) >= Len(p) /\ SubSeq(s, 1, Len(p)) = p

AllChars(s, P(_)) == \A i \in 1..Len(s) : P(s[i])

IsPublicKey(key) == StartsWith(key, <<"P","U","B","L","I","C","_">>)

\* ---------------------------------------------------------------- entries
\* A Map lookup / a provider answer: a string, or undefined.
Absent == [has |-> FALSE, v |-> <<>>]
Some(v) == [has |-> TRUE, v |-> v]

\* ------------------------------------------------- keys used by the model
KPublicA == <<"P","U","B","L","I","C","_","A">>
KDb == <<"D","B">>
KDot == <<"a",".","b">>
Keys == {KPublicA, KDb, KDot}

\* ------------------------------------------------------------- providers
EnvPluginName == "Local Secrets"
GcpPluginName == "Google Cloud Secret Manager"
CustomPluginName == "My Custom Provider"
Plugins == {EnvPluginName, GcpPluginName, CustomPluginName}

\* providerMap: plugin display name -> provider id; "undefined" when the
\* name has no entry in the table.
providerMap(name) ==
    CASE name = EnvPluginName -> "env"
      [] name = GcpPluginName -> "gcp"
      [] OTHER -> "undefined"

IsEnvNameStart(c) == IsLower(c) \/ IsUpper(c) \/ c = "_"
IsEnvNameChar(c) == IsLower(c) \/ IsUpper(c) \/ IsDigit(c) \/ c = "_"
IsGcpNameChar(c) == IsLower(c) \/ IsUpper(c) \/ IsDigit(c) \/ c = "_" \/ c = "-"
GcpMaxNameLen == 255

\* validators[provider].test(name); only called with a provider of the table
validateSecretName(provider, name) ==
    CASE provider = "env" ->
            /\ name # <<>>
            /\ IsEnvNameStart(Head(name))
            /\ AllChars(Tail(name), IsEnvNameChar)
      [] provider = "gcp" ->
            /\ Len(name) >= 1
            /\ Len(name) <= GcpMaxNameLen
            /\ AllChars(name, IsGcpNameChar)

Slice(s, n) == IF Len(s) <= n THEN s ELSE SubSeq(s, 1, n)

normalizeSecretName(provider, key) ==
    CASE provider = "env" -> StrUpper(StrTrim(key))
      [] provider = "gcp" -> Slice(SelectSeq(StrTrim(key), IsGcpNameChar), GcpMaxNameLen)
      [] OTHER -> StrTrim(key)

\* loadSecret, lines 202-208: the key the provider is asked for.  With a
\* plugin name outside providerMap, validators[undefined] is undefined and
\* regex.test throws a TypeError.
ProviderLookupThrows(pluginName) == providerMap(pluginName) = "undefined"
ProviderSecretName(pluginName, key) ==
    IF validateSecretName(providerMap(pluginName), key) THEN key
    ELSE normalizeSecretName(providerMap(pluginName), key)

\* Every name a provider store can be asked for.
StoreKeys == Keys \cup {normalizeSecretName(p, k) : p \in {"env", "gcp"}, k \in Keys}

\* ----------------------------------------------------------------- values
\* A typed value held by a wrapper: t is "str", "num", "bool", "json" or
\* "undef" (syncValue === undefined).  A JSON value is a number, a boolean
\* or null (j names which).
StrV(s) == [t |-> "str", s |-> s, n |-> 0, b |-> FALSE, j |-> ""]
NumV(n) == [t |-> "num", s |-> <<>>, n |-> n, b |-> FALSE, j |-> ""]
BoolV(b) == [t |-> "bool", s |-> <<>>, n |-> 0, b |-> b, j |-> ""]
JsonV(j, n, b) == [t |-> "json", s |-> <<>>, n |-> n, b |-> b, j |-> j]
Undef == [t |-> "undef", s |-> <<>>, n |-> 0, b |-> FALSE, j |-> ""]

\* ----------------------------------------------------------------- errors
\* A thrown Error: the rule that raised it, the key its message embeds
\* (<<>> when the message names no key), whether the message tells the
\* caller to await / to run preloadAllSecrets, and whether the message is
\* the caller's custom one.
NoErr == [rule |-> "", key |-> <<>>, hintAwait |-> FALSE, hintPreload |-> FALSE, custom |-> FALSE]
ValidationErr(rule) == [NoErr EXCEPT !.rule = rule]
CustomErr(rule) == [NoErr EXCEPT !.rule = rule, !.custom = TRUE]
\* Faulty variant: the message does not name the key (C5 rejects it).
SyncAccessErrUnnamed(key) ==
    [rule |-> "sync_without_preload", key |-> <<>>, hintAwait |-> TRUE, hintPreload |-> TRUE, custom |-> FALSE]
SyncAccessErr(key) ==
    [rule |-> "sync_without_preload", key |-> key, hintAwait |-> TRUE, hintPreload |-> TRUE, custom |-> FALSE]
ProviderErr(rule) == [NoErr EXCEPT !.rule = rule]

\* ---------------------------------------------------------------- Number()
RECURSIVE DigitsVal(_)
DigitsVal(s) == IF s = <<>> THEN 0 ELSE DigitsVal(SubSeq(s, 1, Len(s) - 1)) * 10 + DigitVal(s[Len(s)])

DotPos(s) == IF \E i \in 1..Len(s) : s[i] = "." THEN CHOOSE i \in 1..Len(s) : s[i] = "." /\ \A k \in 1..(i - 1) : s[k] # "." ELSE 0
IntPart(s) == IF DotPos(s) = 0 THEN s ELSE SubSeq(s, 1, DotPos(s) - 1)
FracPart(s) == IF DotPos(s) = 0 THEN <<>> ELSE SubSeq(s, DotPos(s) + 1, Len(s))

\* An unsigned decimal literal: digits, optionally one "." and digits, at
\* least one digit overall.
IsDecimalLiteral(s) ==
    /\ AllChars(IntPart(s), IsDigit)
    /\ AllChars(FracPart(s), IsDigit)
    /\ Len(IntPart(s)) + Len(FracPart(s)) >= 1
\* Its value, scaled by DecimalScale (the first fractional digit is kept).
DecimalValue(s) ==
    DigitsVal(IntPart(s)) * DecimalScale
      + (IF FracPart(s) = <<>> THEN 0 ELSE DigitVal(Head(FracPart(s))))

\* Number(str): whitespace is trimmed, the empty string is 0, a signed
\* decimal literal is its value, anything else is NaN.
ToNumber(str) ==
    LET t == StrTrim(str)
        neg == t # <<>> /\ Head(t) = "-"
        body == IF neg THEN Tail(t) ELSE t
    IN  IF t = <<>> THEN [nan |-> FALSE, n |-> 0]
        ELSE IF IsDecimalLiteral(body)
             THEN [nan |-> FALSE, n |-> IF neg THEN 0 - DecimalValue(body) ELSE DecimalValue(body)]
             ELSE [nan |-> TRUE, n |-> 0]

IsInteger(n) == n % DecimalScale = 0

\* ------------------------------------------------------------ parseBoolean
STrue == <<"t","r","u","e">>
SFalse == <<"f","a","l","s","e">>
\* Faulty variant: the comparison is case-sensitive (C19 rejects it).
parseBooleanExact(str) ==
    IF str = STrue THEN [null |-> FALSE, b |-> TRUE]
    ELSE IF str = SFalse THEN [null |-> FALSE, b |-> FALSE]
    ELSE [null |-> TRUE, b |-> FALSE]
parseBoolean(str) ==
    LET lower == StrLower(str)
    IN  IF lower = STrue THEN [null |-> FALSE, b |-> TRUE]
        ELSE IF lower = SFalse THEN [null |-> FALSE, b |-> FALSE]
        ELSE [null |-> TRUE, b |-> FALSE]

\* -------------------------------------------------------------- JSON.parse
\* Over the model's alphabet a JSON text is, between optional whitespace,
\* one of the literals true / false / null (case-sensitive) or a number
\* (optional "-", digits without a leading zero, optional "." and digits).
IsJsonNumber(s) ==
    LET body == IF s # <<>> /\ Head(s) = "-" THEN Tail(s) ELSE s
    IN  /\ IntPart(body) # <<>>
        /\ AllChars(IntPart(body), IsDigit)
        /\ (Len(IntPart(body)) > 1 => Head(IntPart(body)) # "0")
        /\ (DotPos(body) # 0 => FracPart(body) # <<>>)
        /\ AllChars(FracPart(body), IsDigit)
JsonParse(str) ==
    LET t == StrTrim(str)
    IN  IF t = STrue THEN [throws |-> FALSE, v |-> JsonV("bool", 0, TRUE)]
        ELSE IF t = SFalse THEN [throws |-> FALSE, v |-> JsonV("bool", 0, FALSE)]
        ELSE IF t = <<"n","u","l","l">> THEN [throws |-> FALSE, v |-> JsonV("null", 0, FALSE)]
        ELSE IF IsJsonNumber(t) THEN [throws |-> FALSE, v |-> JsonV("num", ToNumber(t).n, FALSE)]
        ELSE [throws |-> TRUE, v |-> Undef]

\* ------------------------------------------------------------ RegExp.test
\* A RegExp object: its source, its g flag (y behaves alike) and, in the
\* chain, its lastIndex.  Both sources are anchored at ^ and $.
PatDigits == "^[0-9]+$"
PatToken == "^[-a-z0-9]+$ (i)"
IsTokenChar(c) == IsLower(c) \/ IsUpper(c) \/ IsDigit(c) \/ c = "-"
PatternMatchesWhole(src, s) ==
    CASE src = PatDigits -> s # <<>> /\ AllChars(s, IsDigit)
      [] src = PatToken -> s # <<>> /\ AllChars(s, IsTokenChar)
\* pattern.test(s) with the object's lastIndex: without the g flag the
\* search starts at 0 and lastIndex stays; with it the search starts at
\* lastIndex (an anchored pattern can only match from 0), a match moves
\* lastIndex to its end and a failure resets it to 0.
RegexTest(src, global, lastIndex, s) ==
    IF ~global
    THEN [match |-> PatternMatchesWhole(src, s), lastIndex |-> lastIndex]
    ELSE IF lastIndex = 0 /\ PatternMatchesWhole(src, s)
         THEN [match |-> TRUE, lastIndex |-> Len(s)]
         ELSE [match |-> FALSE, lastIndex |-> 0]

\* -------------------------------------------------------- chain operators
\* One call of a wrapper method: its name and arguments (numbers scaled by
\* DecimalScale; src/global describe the RegExp argument, msg whether a
\* custom message was passed).
Op(name) == [name |-> name, x |-> 0, y |-> 0, src |-> "", global |-> FALSE, msg |-> FALSE]
OpXY(name, x, y) == [Op(name) EXCEPT !.x = x, !.y = y]
OpRegex(src, global, msg) == [Op("regex") EXCEPT !.src = src, !.global = global, !.msg = msg]

StringOpNames == {"required", "notEmpty", "trim", "lengthBetween", "regex",
                  "toLowerCase", "toUpperCase", "number", "boolean", "json"}
NumberOpNames == {"required", "min", "max", "between", "positive", "negative", "integer"}
BooleanOpNames == {"required", "true", "false"}
JsonOpNames == {"required"}
\* The methods each wrapper class has.
HasMethod(variant, name) ==
    CASE variant = "str" -> name \in StringOpNames
      [] variant = "num" -> name \in NumberOpNames
      [] variant = "bool" -> name \in BooleanOpNames
      [] variant = "json" -> name \in JsonOpNames
      [] OTHER -> FALSE

SyncOk(v, li) == [throws |-> FALSE, err |-> NoErr, sync |-> v, li |-> li]
SyncThrow(e) == [throws |-> TRUE, err |-> e, sync |-> Undef, li |-> 0]
RegexErr(op) == IF op.msg THEN CustomErr("regex") ELSE ValidationErr("regex")

\* The synchronous half of SecretValue's methods (the code before
\* "const newAsync"): what happens to syncValue.
StringSyncStep(sync, op) ==
    CASE op.name = "required" ->
            IF sync.t # "undef" /\ sync.s = <<>> THEN SyncThrow(ValidationErr("required")) ELSE SyncOk(sync, 0)
      [] op.name = "notEmpty" ->
            IF sync.t # "undef" /\ Len(sync.s) = 0 THEN SyncThrow(ValidationErr("notEmpty")) ELSE SyncOk(sync, 0)
      [] op.name = "trim" ->
            SyncOk(IF sync.t # "undef" THEN StrV(StrTrim(sync.s)) ELSE Undef, 0)
      [] op.name = "lengthBetween" ->
            IF sync.t # "undef" /\ (Len(sync.s) < op.x \/ Len(sync.s) > op.y)
            THEN SyncThrow(ValidationErr("lengthBetween")) ELSE SyncOk(sync, 0)
      [] op.name = "regex" ->
            IF sync.t # "undef"
            THEN LET r == RegexTest(op.src, op.global, 0, sync.s)
                 IN  IF ~r.match THEN SyncThrow(RegexErr(op)) ELSE SyncOk(sync, r.lastIndex)
            ELSE SyncOk(sync, 0)
      [] op.name = "toLowerCase" ->
            SyncOk(IF sync.t # "undef" THEN StrV(StrLower(sync.s)) ELSE Undef, 0)
      [] op.name = "toUpperCase" ->
            SyncOk(IF sync.t # "undef" THEN StrV(StrUpper(sync.s)) ELSE Undef, 0)
      [] op.name = "number" ->
            IF sync.t # "undef"
            THEN IF ToNumber(sync.s).nan THEN SyncThrow(ValidationErr("number"))
                 ELSE SyncOk(NumV(ToNumber(sync.s).n), 0)
            ELSE SyncOk(Undef, 0)
      [] op.name = "boolean" ->
            IF sync.t # "undef"
            THEN IF parseBoolean(sync.s).null THEN SyncThrow(ValidationErr("boolean"))
                 ELSE SyncOk(BoolV(parseBoolean(sync.s).b), 0)
            ELSE SyncOk(Undef, 0)
      [] op.name = "json" ->
            IF sync.t # "undef"
            THEN IF JsonParse(sync.s).throws THEN SyncThrow(ValidationErr("json"))
                 ELSE SyncOk(JsonParse(sync.s).v, 0)
            ELSE SyncOk(Undef, 0)

\* The synchronous half of NumberSecretValue's methods.
NumberSyncStep(sync, op) ==
    CASE op.name = "required" -> SyncOk(sync, 0)
      [] op.name = "min" ->
            IF sync.t # "undef" /\ sync.n < op.x THEN SyncThrow(ValidationErr("min")) ELSE SyncOk(sync, 0)
      [] op.name = "max" ->
            IF sync.t # "undef" /\ sync.n > op.x THEN SyncThrow(ValidationErr("max")) ELSE SyncOk(sync, 0)
      [] op.name = "between" ->
            IF sync.t # "undef" /\ (sync.n < op.x \/ sync.n > op.y)
            THEN SyncThrow(ValidationErr("between")) ELSE SyncOk(sync, 0)
      [] op.name = "positive" ->
            IF sync.t # "undef" /\ sync.n <= 0 THEN SyncThrow(ValidationErr("positive")) ELSE SyncOk(sync, 0)
      [] op.name = "negative" ->
            IF sync.t # "undef" /\ sync.n >= 0 THEN SyncThrow(ValidationErr("negative")) ELSE SyncOk(sync, 0)
      [] op.name = "integer" ->
            IF sync.t # "undef" /\ ~IsInteger(sync.n) THEN SyncThrow(ValidationErr("integer")) ELSE SyncOk(sync, 0)

\* The synchronous half of BooleanSecretValue's methods.
BooleanSyncStep(sync, op) ==
    CASE op.name = "required" ->
            IF sync.t = "undef" THEN SyncThrow(ValidationErr("required")) ELSE SyncOk(sync, 0)
      [] op.name = "true" ->
            IF sync.t # "undef" /\ sync.b # TRUE THEN SyncThrow(ValidationErr("true")) ELSE SyncOk(sync, 0)
      [] op.name = "false" ->
            IF sync.t # "undef" /\ sync.b # FALSE THEN SyncThrow(ValidationErr("false")) ELSE SyncOk(sync, 0)

\* JsonSecretValue.required
JsonSyncStep(sync, op) ==
    IF sync.t = "undef" THEN SyncThrow(ValidationErr("required")) ELSE SyncOk(sync, 0)

SyncStep(variant, sync, op) ==
    CASE variant = "str" -> StringSyncStep(sync, op)
      [] variant = "num" -> NumberSyncStep(sync, op)
      [] variant = "bool" -> BooleanSyncStep(sync, op)
      [] variant = "json" -> JsonSyncStep(sync, op)

\* The class of the wrapper a method returns.
ResultVariant(variant, op) ==
    IF variant = "str" /\ op.name = "number" THEN "num"
    ELSE IF variant = "str" /\ op.name = "boolean" THEN "bool"
    ELSE IF variant = "str" /\ op.name = "json" THEN "json"
    ELSE variant

AsyncOk(v) == [ok |-> TRUE, v |-> v, err |-> NoErr]
AsyncReject(e) == [ok |-> FALSE, v |-> Undef, err |-> e]

\* Faulty variant: the callback of required() lets the empty string
\* through (C15 rejects it).
StringAsyncStepLenient(val, op, li) ==
    CASE op.name = "required" ->
            AsyncOk(val)
      [] op.name = "notEmpty" ->
            IF Len(val.s) = 0 THEN AsyncReject(ValidationErr("notEmpty")) ELSE AsyncOk(val)
      [] op.name = "trim" -> AsyncOk(StrV(StrTrim(val.s)))
      [] op.name = "lengthBetween" ->
            IF Len(val.s) < op.x \/ Len(val.s) > op.y
            THEN AsyncReject(ValidationErr("lengthBetween")) ELSE AsyncOk(val)
      [] op.name = "regex" ->
            IF ~RegexTest(op.src, op.global, li, val.s).match
            THEN AsyncReject(RegexErr(op)) ELSE AsyncOk(val)
      [] op.name = "toLowerCase" -> AsyncOk(StrV(StrLower(val.s)))
      [] op.name = "toUpperCase" -> AsyncOk(StrV(StrUpper(val.s)))
      [] op.name = "number" ->
            IF ToNumber(val.s).nan THEN AsyncReject(ValidationErr("number"))
            ELSE AsyncOk(NumV(ToNumber(val.s).n))
      [] op.name = "boolean" ->
            IF parseBoolean(val.s).null THEN AsyncReject(ValidationErr("boolean"))
            ELSE AsyncOk(BoolV(parseBoolean(val.s).b))
      [] op.name = "json" ->
            IF JsonParse(val.s).throws THEN AsyncReject(ValidationErr("json"))
            ELSE AsyncOk(JsonParse(val.s).v)

\* The callbacks the methods attach with asyncValue.then(...): val is the
\* value the promise carries; li is the lastIndex the RegExp argument was
\* left with by the synchronous half of the same call.
StringAsyncStep(val, op, li) ==
    CASE op.name = "required" ->
            IF val.s = <<>> THEN AsyncReject(ValidationErr("required")) ELSE AsyncOk(val)
      [] op.name = "notEmpty" ->
            IF Len(val.s) = 0 THEN AsyncReject(ValidationErr("notEmpty")) ELSE AsyncOk(val)
      [] op.name = "trim" -> AsyncOk(StrV(StrTrim(val.s)))
      [] op.name = "lengthBetween" ->
            IF Len(val.s) < op.x \/ Len(val.s) > op.y
            THEN AsyncReject(ValidationErr("lengthBetween")) ELSE AsyncOk(val)
      [] op.name = "regex" ->
            IF ~RegexTest(op.src, op.global, li, val.s).match
            THEN AsyncReject(RegexErr(op)) ELSE AsyncOk(val)
      [] op.name = "toLowerCase" -> AsyncOk(StrV(StrLower(val.s)))
      [] op.name = "toUpperCase" -> AsyncOk(StrV(StrUpper(val.s)))
      [] op.name = "number" ->
            IF ToNumber(val.s).nan THEN AsyncReject(ValidationErr("number"))
            ELSE AsyncOk(NumV(ToNumber(val.s).n))
      [] op.name = "boolean" ->
            IF parseBoolean(val.s).null THEN AsyncReject(ValidationErr("boolean"))
            ELSE AsyncOk(BoolV(parseBoolean(val.s).b))
      [] op.name = "json" ->
            IF JsonParse(val.s).throws THEN AsyncReject(ValidationErr("json"))
            ELSE AsyncOk(JsonParse(val.s).v)

\* NumberSecretValue: required() rejects undefined, null and NaN, none of
\* which a number() result can be.
NumberAsyncStep(val, op) ==
    CASE op.name = "required" ->
            IF val.t # "num" THEN AsyncReject(ValidationErr("required")) ELSE AsyncOk(val)
      [] op.name = "min" -> IF val.n < op.x THEN AsyncReject(ValidationErr("min")) ELSE AsyncOk(val)
      [] op.name = "max" -> IF val.n > op.x THEN AsyncReject(ValidationErr("max")) ELSE AsyncOk(val)
      [] op.name = "between" ->
            IF val.n < op.x \/ val.n > op.y THEN AsyncReject(ValidationErr("between")) ELSE AsyncOk(val)
      [] op.name = "positive" -> IF val.n <= 0 THEN AsyncReject(ValidationErr("positive")) ELSE AsyncOk(val)
      [] op.name = "negative" -> IF val.n >= 0 THEN AsyncReject(ValidationErr("negative")) ELSE AsyncOk(val)
      [] op.name = "integer" -> IF ~IsInteger(val.n) THEN AsyncReject(ValidationErr("integer")) ELSE AsyncOk(val)

\* BooleanSecretValue: required() passes asyncValue on unchanged.
BooleanAsyncStep(val, op) ==
    CASE op.name = "required" -> AsyncOk(val)
      [] op.name = "true" -> IF val.b # TRUE THEN AsyncReject(ValidationErr("true")) ELSE AsyncOk(val)
      [] op.name = "false" -> IF val.b # FALSE THEN AsyncReject(ValidationErr("false")) ELSE AsyncOk(val)

\* JsonSecretValue.required passes asyncValue on unchanged.
JsonAsyncStep(val, op) == AsyncOk(val)

AsyncStep(val, op, li) ==
    CASE val.t = "str" -> StringAsyncStep(val, op, li)
      [] val.t = "num" -> NumberAsyncStep(val, op)
      [] val.t = "bool" -> BooleanAsyncStep(val, op)
      [] val.t = "json" -> JsonAsyncStep(val, op)

\* The promise chain: the callbacks run in order on the value the source
\* promise fulfils with; the first one that throws rejects the chain.  at is
\* the position of the step that rejected (0: none).
RECURSIVE RunAsyncFrom(_, _, _)
RunAsyncFrom(val, steps, i) ==
    IF i > Len(steps) THEN [ok |-> TRUE, v |-> val, err |-> NoErr, at |-> 0]
    ELSE LET r == AsyncStep(val, steps[i].op, steps[i].li)
         IN  IF r.ok THEN RunAsyncFrom(r.v, steps, i + 1)
             ELSE [ok |-> FALSE, v |-> Undef, err |-> r.err, at |-> i]
RunAsync(val, steps) == RunAsyncFrom(val, steps, 1)

\* ------------------------------------------------------------ model inputs
VEmpty == <<>>
V12 == <<"1","2">>
V7 == <<"7">>
V42 == <<"4","2">>
VPub == <<"v","2">>

NoEntries == [k \in Keys |-> Absent]
\* The merged mapping config() reads from the .env / .secrets / .public
\* files, and whether decrypting them fails.
FileConfigs ==
    { [map |-> NoEntries, fails |-> FALSE],
      [map |-> [NoEntries EXCEPT ![KPublicA] = Some(VPub), ![KDb] = Some(V12)], fails |-> FALSE],
      [map |-> [NoEntries EXCEPT ![KDb] = Some(VEmpty)], fails |-> FALSE] }
\* The keys the application reads and loads.
MainKeys == {KPublicA, KDb}
\* What the application writes to process.env at run time (under DB).
EnvWriteValues == {V7}
\* The secrets held by the Google Cloud project.
GcpStore ==
    [k \in StoreKeys |-> IF k = KDb THEN Some(V42)
                         ELSE IF k # KDot /\ k = normalizeSecretName("gcp", KDot) THEN Some(V7)
                         ELSE Absent]
\* gcpMode is ok: the service answers; down: accessSecretVersion fails (caught by the
\* plugin); broken: client initialisation failed or GOOGLE_PROJECT_ID is
\* missing (getSecret throws).

\* ------------------------------------------------------------------ state
VARIABLES
    initialized,      \* SecretsManager.initialized
    cache,            \* SecretsManager.cache
    publicCache,      \* SecretsManager.publicCache
    plugin,           \* SecretsManager.plugin (its pluginName)
    preloadExecuted,  \* secretsProxy.preloadExecuted
    env,              \* process.env
    gcpMode,          \* state of the Google Cloud plugin / service
    files,            \* the configuration files on disk
    watch,            \* the file watcher: started, and a change event waiting
    refs,             \* secrets.<KEY> references in the project code
    conf,             \* the config() call the application made itself
    log,              \* ConsoleUtils: debug mode, and the warnings of the last load
    pending,          \* plugin.getSecret calls in flight
    preload,          \* the preloadAllSecrets run in progress
    w,                \* the wrapper the application holds
    obs,              \* what the application observed from w
    issued,           \* the provider calls the last step made
    retrieved,        \* private keys an await of secrets.K fulfilled for with a held value
    settled,          \* a preload run completed and the provider is unchanged since it began
    budget            \* environment writes and provider swaps so far

vars == <<initialized, cache, publicCache, plugin, preloadExecuted, env, gcpMode,
          files, watch, refs, log, conf, pending, preload, w, obs, issued, retrieved, settled, budget>>

\* --------------------------------------------------------------- wrappers
\* The promise a wrapper was built on: already fulfilled with v, waiting
\* for loadSecret, or rejected; found tells whether the value is one that
\* was stored or retrieved rather than the "" standing in for undefined.
NoSrc == [kind |-> "none", v |-> Undef, err |-> NoErr, found |-> FALSE]
ValSrc(v) == [kind |-> "val", v |-> v, err |-> NoErr, found |-> TRUE]
LoadSrc == [kind |-> "load", v |-> Undef, err |-> NoErr, found |-> FALSE]
RejectedSrc(e) == [kind |-> "rejected", v |-> Undef, err |-> e, found |-> FALSE]

NoWrapper ==
    [variant |-> "none", key |-> <<>>, origin |-> "", sync |-> Undef, src |-> NoSrc,
     steps |-> <<>>, threwAt |-> 0, err |-> NoErr]
\* new SecretValue(key, syncValue, asyncValue)
SecretValue(key, origin, sync, src) ==
    [variant |-> "str", key |-> key, origin |-> origin, sync |-> sync, src |-> src,
     steps |-> <<>>, threwAt |-> 0, err |-> NoErr]

\* A promise fulfilled with a looked-up value, "" standing in for undefined
\* (publicVal ?? "", val ?? "").
LoadedSrc(e) == [ValSrc(StrV(IF e.has THEN e.v ELSE <<>>)) EXCEPT !.found = e.has]
\* The four wrappers the Proxy get trap builds.
\* Faulty variant: a public wrapper without a synchronous value (C2
\* rejects it).
PublicWrapperAsyncOnly(key, pub) == SecretValue(key, "public", Undef, LoadedSrc(pub[key]))
\* PUBLIC_ key: the public map's value, or the empty string
PublicWrapper(key, pub) ==
    SecretValue(key, "public", StrV(IF pub[key].has THEN pub[key].v ELSE <<>>), LoadedSrc(pub[key]))
\* Faulty variant: the cached value is served synchronously only, the
\* promise carries the empty string (C11 rejects it).
CachedWrapperSyncOnly(key, c) == SecretValue(key, "cached", StrV(c[key].v), LoadedSrc(Absent))
\* 1) the secret is in the cache
CachedWrapper(key, c) == SecretValue(key, "cached", StrV(c[key].v), ValSrc(StrV(c[key].v)))
\* Faulty variant: the miss is answered with a pending load (C7 rejects it).
MissWrapperPending(key) == SecretValue(key, "miss", Undef, LoadSrc)
\* 2) preload was executed but the key is not in the cache
MissWrapper(key) == SecretValue(key, "miss", StrV(<<>>), LoadedSrc(Absent))
\* 3) only the asynchronous path: loadSecret(key).then(val => val ?? "")
LoadWrapper(key, src) == SecretValue(key, "load", Undef, src)

NoOutcome == [st |-> "none", v |-> Undef, err |-> NoErr]
Returned(v) == [st |-> "value", v |-> v, err |-> NoErr]
Threw(e) == [st |-> "throw", v |-> Undef, err |-> e]
NoObs == [sync |-> NoOutcome, async |-> NoOutcome, readThrew |-> FALSE]

\* valueOf / toString / Symbol.toPrimitive of every wrapper class
ValueOf(wr) == IF wr.sync.t = "undef" THEN Threw(SyncAccessErr(wr.key)) ELSE Returned(wr.sync)

\* then(): the settled state of asyncValue, once its source has settled
Awaited(wr) ==
    IF wr.src.kind = "rejected" THEN Threw(wr.src.err)
    ELSE LET r == RunAsync(wr.src.v, wr.steps)
         IN  IF r.ok THEN Returned(r.v) ELSE Threw(r.err)

\* A wrapper method call: the synchronous half throws, or a new wrapper is
\* returned whose asyncValue has one more callback.
ApplyMethod(wr, op) ==
    LET r == SyncStep(wr.variant, wr.sync, op)
    IN  IF r.throws
        THEN [wr EXCEPT !.steps = Append(wr.steps, [op |-> op, li |-> 0]),
                        !.threwAt = Len(wr.steps) + 1, !.err = r.err, !.sync = Undef]
        ELSE [wr EXCEPT !.variant = ResultVariant(wr.variant, op),
                        !.sync = r.sync,
                        !.steps = Append(wr.steps, [op |-> op, li |-> r.li])]

\* ------------------------------------------------------ SecretsManager
\* initialize(): runs config() once; a decryption failure throws out of it
\* after the marker was set.
InitializeThrows == ~initialized /\ files.fails
PopulatesCaches == ~initialized /\ ~files.fails
CacheAfterInit ==
    IF PopulatesCaches
    THEN [k \in Keys |-> IF files.map[k].has /\ ~IsPublicKey(k) THEN files.map[k] ELSE cache[k]]
    ELSE cache
PublicAfterInit ==
    IF PopulatesCaches
    THEN [k \in Keys |-> IF files.map[k].has /\ IsPublicKey(k) THEN files.map[k] ELSE publicCache[k]]
    ELSE publicCache
\* loadEnvFile / loadSecretsFile with override: process.env[key] = val
EnvAfterInit ==
    IF PopulatesCaches
    THEN [k \in StoreKeys |-> IF k \in Keys /\ files.map[k].has THEN files.map[k] ELSE env[k]]
    ELSE env

\* loadSecret after the cache check: the provider lookup and the call of
\* plugin.getSecret.  A call in flight remembers the canonical key, the key
\* the provider was asked for, the plugin that was asked, (for the env
\* plugin, which reads process.env when called) the answer, and who awaits
\* it: the wrapper the application holds, the preload run, or nobody the
\* model follows.
GetSecretCall(key, owner, envNow) ==
    LET pkey == ProviderSecretName(plugin, key)
    IN  [key |-> key, pkey |-> pkey, plugin |-> plugin,
         val |-> IF plugin = EnvPluginName THEN envNow[pkey] ELSE Absent, owner |-> owner]

\* What the awaited plugin.getSecret call answers when it settles.
GetSecretAnswer(p) ==
    IF p.plugin = EnvPluginName THEN [throws |-> FALSE, e |-> p.val]
    ELSE CASE gcpMode = "ok" -> [throws |-> FALSE, e |-> GcpStore[p.pkey]]
           [] gcpMode = "down" -> [throws |-> FALSE, e |-> Absent]
           [] gcpMode = "broken" -> [throws |-> TRUE, e |-> Absent]

\* Faulty variant: the retrieved value is not written back (C9 rejects it).
CacheNeverWritten(c, key, ans) == c
\* Faulty variant: the retrieved value is written over every entry (C26
\* rejects it).
CacheWrittenEverywhere(c, key, ans) ==
    IF ~ans.throws /\ ans.e.has THEN [k \in DOMAIN c |-> ans.e] ELSE c
\* loadSecret lines 212-215: the write-back after the await
CacheAfterAnswer(c, key, ans) ==
    IF ~ans.throws /\ ans.e.has THEN [c EXCEPT ![key] = ans.e] ELSE c

\* plugin.getSecretSync?.(key): env reads process.env, the Google Cloud
\* plugin has no synchronous retrieval, a custom plugin written against
\* ISecretsPlugin need not implement it.
GetSecretSyncAnswer(key, envNow) == IF plugin = EnvPluginName THEN envNow[key] ELSE Absent
HasGetSecretSync == plugin \in {EnvPluginName, GcpPluginName}

\* The wrapper that awaited a call is gone: the call goes on unobserved.
Detached(pend) == {IF p.owner = "proxy" THEN [p EXCEPT !.owner = "direct"] ELSE p : p \in pend}
\* A call can be added while fewer than MaxPending are in flight.
CanCall(pend, news) ==
    /\ news \cap pend = {}
    /\ Cardinality(pend \cup news) <= MaxPending

NoIssue == [by |-> "", keys |-> {}]
Issue(by, keys) == [by |-> by, keys |-> keys]

\* ---------------------------------------------------------------- Init
\* No config() call of the application: none running, nothing returned.
\* ConsoleUtils.debugEnabled is off until config() is given debug; warnings
\* counts the key-format warnings written to the console during the
\* loadSecret call that completed last.
NoLog == [debug |-> FALSE, warnings |-> 0]
\* phase: idle, expanding (inside expandVariables), returned, or threw.
NoConf == [phase |-> "idle", result |-> NoEntries, override |-> FALSE]
NoPreload == [active |-> FALSE, failed |-> FALSE, clean |-> FALSE, rerun |-> FALSE]
NoBudget == [envWrites |-> 0, swaps |-> 0]

\* The state once the module is imported: the constructor installed the
\* env plugin, and the import-time config() copied the file values into
\* process.env unless auto-configuration is switched off (which it has to
\* be when the files cannot be decrypted).  config() starts the watcher on
\* the configuration files that exist.
InitWith(fileSet, refSet) ==
    /\ initialized = FALSE
    /\ cache = NoEntries
    /\ publicCache = NoEntries
    /\ plugin = EnvPluginName
    /\ preloadExecuted = FALSE
    /\ files \in fileSet
    /\ env = [k \in StoreKeys |-> IF k \in Keys /\ ~files.fails THEN files.map[k] ELSE Absent]
    /\ gcpMode = "ok"
    /\ watch = [active |-> ~files.fails /\ (\E k \in Keys : files.map[k].has), changed |-> FALSE]
    /\ refs \in refSet
    /\ conf = NoConf
    /\ log = NoLog
    /\ pending = {}
    /\ preload = NoPreload
    /\ w = NoWrapper
    /\ obs = NoObs
    /\ issued = NoIssue
    /\ retrieved = {}
    /\ settled = FALSE
    /\ budget = NoBudget

\* The second argument: the member expressions secrets.<KEY> the scan finds
\* in the project.
Init == InitWith(FileConfigs, { {}, {KPublicA, KDb} })

\* Wrappers are transient: one whose promise is not waiting for the
\* provider is dropped when the application moves on to something else.
KeptWrapper == IF w.src.kind = "load" THEN w ELSE NoWrapper
KeptObs == IF w.src.kind = "load" THEN obs ELSE NoObs

\* ------------------------------------------------------------- the proxy
\* secrets.<key>: the Proxy get trap.
Read(key) ==
    IF InitializeThrows
    THEN /\ initialized' = TRUE
         /\ w' = NoWrapper
         /\ obs' = [NoObs EXCEPT !.readThrew = TRUE]
         /\ pending' = Detached(pending)
         /\ issued' = NoIssue
         /\ UNCHANGED <<cache, publicCache, plugin, preloadExecuted, env, gcpMode, files, watch,
                        refs, log, conf, retrieved, preload, settled, budget>>
    ELSE /\ initialized' = TRUE
         /\ cache' = CacheAfterInit
         /\ publicCache' = PublicAfterInit
         /\ env' = EnvAfterInit
         /\ obs' = NoObs
         /\ IF IsPublicKey(key)
            THEN /\ w' = PublicWrapper(key, PublicAfterInit)
                 /\ pending' = Detached(pending)
                 /\ issued' = NoIssue
            ELSE IF CacheAfterInit[key].has
            THEN /\ w' = CachedWrapper(key, CacheAfterInit)
                 /\ pending' = Detached(pending)
                 /\ issued' = NoIssue
            ELSE IF preloadExecuted
            THEN /\ w' = MissWrapper(key)
                 /\ pending' = Detached(pending)
                 /\ issued' = NoIssue
            ELSE IF ProviderLookupThrows(plugin)
            THEN /\ w' = LoadWrapper(key, RejectedSrc(ProviderErr("TypeError")))
                 /\ pending' = Detached(pending)
                 /\ issued' = NoIssue
            ELSE LET call == GetSecretCall(key, "proxy", EnvAfterInit)
                 IN  /\ CanCall(Detached(pending), {call})
                     /\ pending' = Detached(pending) \cup {call}
                     /\ w' = LoadWrapper(key, LoadSrc)
                     /\ issued' = Issue("proxy", {key})
         /\ UNCHANGED <<plugin, preloadExecuted, gcpMode, files, watch, refs, log, conf, retrieved, preload,
                        settled, budget>>

\* A plugin.getSecret call settles and loadSecret resumes after its await.
\* The key-format warnings one loadSecret call writes: its own
\* ConsoleUtils.warn (shown in debug mode only) when the key is not in the
\* provider's format, and the forced one of parseSecretName when the
\* Google Cloud plugin's getSecret gets as far as parsing a name that is
\* not in the format either.
LoadWarnings(p) ==
    (IF log.debug /\ ~validateSecretName(providerMap(p.plugin), p.key) THEN 1 ELSE 0)
      + (IF p.plugin = GcpPluginName /\ gcpMode # "broken"
            /\ ~validateSecretName(providerMap(p.plugin), p.pkey) THEN 1 ELSE 0)

FetchReturn(p) ==
    LET ans == GetSecretAnswer(p)
    IN  /\ p \in pending
        /\ pending' = pending \ {p}
        /\ cache' = CacheAfterAnswer(cache, p.key, ans)
        /\ w' = IF p.owner = "proxy"
                THEN [w EXCEPT !.src = IF ans.throws THEN RejectedSrc(ProviderErr("provider"))
                                       ELSE LoadedSrc(ans.e)]
                ELSE KeptWrapper
        /\ obs' = IF p.owner = "proxy" THEN obs ELSE KeptObs
        /\ preload' = IF p.owner = "preload"
                      THEN [preload EXCEPT !.failed = @ \/ ans.throws]
                      ELSE preload
        /\ issued' = NoIssue
        /\ log' = [log EXCEPT !.warnings = LoadWarnings(p)]
        /\ UNCHANGED <<initialized, publicCache, plugin, preloadExecuted, env, gcpMode, files, watch,
                       refs, conf, retrieved, settled, budget>>

\* A method of the wrapper is called.
ApplyOp(op, limit) ==
    /\ w.variant # "none"
    /\ w.threwAt = 0
    /\ Len(w.steps) < limit
    /\ HasMethod(w.variant, op.name)
    /\ w' = ApplyMethod(w, op)
    /\ obs' = NoObs
    /\ issued' = NoIssue
    /\ UNCHANGED <<initialized, cache, publicCache, plugin, preloadExecuted, env, gcpMode,
                   files, watch, refs, log, conf, retrieved, pending, preload, settled, budget>>

\* The wrapper is coerced to a primitive.
ValueOfW ==
    /\ w.variant # "none"
    /\ w.threwAt = 0
    /\ obs.sync.st = "none"
    /\ obs' = [obs EXCEPT !.sync = ValueOf(w)]
    /\ issued' = NoIssue
    /\ UNCHANGED <<initialized, cache, publicCache, plugin, preloadExecuted, env, gcpMode,
                   files, watch, refs, log, conf, retrieved, pending, preload, w, settled, budget>>

\* The wrapper is awaited and its promise has settled.
AwaitW ==
    /\ w.variant # "none"
    /\ w.threwAt = 0
    /\ w.src.kind \in {"val", "rejected"}
    /\ obs.async.st = "none"
    /\ obs' = [obs EXCEPT !.async = Awaited(w)]
    /\ retrieved' = IF ~IsPublicKey(w.key) /\ w.origin = "load" /\ w.src.found /\ Awaited(w).st = "value"
                    THEN retrieved \cup {w.key} ELSE retrieved
    /\ issued' = NoIssue
    /\ UNCHANGED <<initialized, cache, publicCache, plugin, preloadExecuted, env, gcpMode,
                   files, watch, refs, log, conf, pending, preload, w, settled, budget>>

\* ------------------------------------------------------ preloadAllSecrets
\* Step 2: the references whose cached value is missing or falsy.
KeysToLoad(c) == {k \in refs : ~(c[k].has /\ c[k].v # <<>>)}
\* Faulty variant: cached keys with a falsy value are fetched again (C10
\* rejects it).
KeysRefetched(c) == {k \in refs : ~(c[k].has /\ c[k].v # <<>>)}
\* Of those, the ones loadSecret does not find in the cache.
KeysToFetch(c) == {k \in KeysToLoad(c) : ~c[k].has}
\* Step 3: keysToLoad.map(loadSecret) calls the plugin for each of them.
PreloadCalls(ks, envNow) == {GetSecretCall(k, "preload", envNow) : k \in ks}

\* preloadAllSecrets up to its await (or to its end when nothing is loaded).
PreloadStart ==
    /\ ~preload.active
    /\ w' = KeptWrapper
    /\ obs' = KeptObs
    /\ IF refs = {}
       THEN /\ preloadExecuted' = TRUE
            /\ settled' = TRUE
            /\ issued' = NoIssue
            /\ UNCHANGED <<initialized, cache, publicCache, env, pending, preload>>
       ELSE IF InitializeThrows
       THEN /\ initialized' = TRUE
            /\ issued' = NoIssue
            /\ UNCHANGED <<cache, publicCache, env, preloadExecuted, pending, preload, settled>>
       ELSE /\ initialized' = TRUE
            /\ cache' = CacheAfterInit
            /\ publicCache' = PublicAfterInit
            /\ env' = EnvAfterInit
            /\ IF KeysToLoad(CacheAfterInit) = {}
               THEN /\ preloadExecuted' = TRUE
                    /\ settled' = TRUE
                    /\ issued' = NoIssue
                    /\ UNCHANGED <<pending, preload>>
               ELSE IF KeysToFetch(CacheAfterInit) # {} /\ ProviderLookupThrows(plugin)
               THEN /\ preload' = [active |-> TRUE, failed |-> TRUE, clean |-> TRUE, rerun |-> settled]
                    /\ issued' = NoIssue
                    /\ UNCHANGED <<preloadExecuted, pending, settled>>
               ELSE LET news == PreloadCalls(KeysToFetch(CacheAfterInit), EnvAfterInit)
                    IN  /\ CanCall(pending, news)
                        /\ pending' = pending \cup news
                        /\ preload' = [active |-> TRUE, failed |-> FALSE, clean |-> TRUE, rerun |-> settled]
                        /\ issued' = Issue("preload", KeysToFetch(CacheAfterInit))
                        /\ UNCHANGED <<preloadExecuted, settled>>
    /\ UNCHANGED <<plugin, gcpMode, files, watch, refs, log, conf, retrieved, budget>>

PreloadPending == {p \in pending : p.owner = "preload"}

\* Faulty variant: the flag is set however the loads ended (C23 rejects
\* it).
PreloadFinishAlwaysMarks ==
    /\ preload.active
    /\ PreloadPending = {} \/ preload.failed
    /\ preloadExecuted' = TRUE
    /\ settled' = IF preload.failed THEN settled ELSE preload.clean
    /\ preload' = NoPreload
    /\ pending' = {IF p.owner = "preload" THEN [p EXCEPT !.owner = "direct"] ELSE p : p \in pending}
    /\ w' = KeptWrapper
    /\ obs' = KeptObs
    /\ issued' = NoIssue
    /\ UNCHANGED <<initialized, cache, publicCache, plugin, env, gcpMode, files, watch, refs, log, conf, retrieved, budget>>
\* Promise.all settles: markPreloadExecuted() runs when every load
\* fulfilled; a rejected load makes preloadAllSecrets throw before it.
PreloadFinish ==
    /\ preload.active
    /\ PreloadPending = {} \/ preload.failed
    /\ preloadExecuted' = IF preload.failed THEN preloadExecuted ELSE TRUE
    /\ settled' = IF preload.failed THEN settled ELSE preload.clean
    /\ preload' = NoPreload
    /\ pending' = {IF p.owner = "preload" THEN [p EXCEPT !.owner = "direct"] ELSE p : p \in pending}
    /\ w' = KeptWrapper
    /\ obs' = KeptObs
    /\ issued' = NoIssue
    /\ UNCHANGED <<initialized, cache, publicCache, plugin, env, gcpMode, files, watch, refs, log, conf, retrieved, budget>>

\* The provider, or what it serves, changes: a run in progress no longer
\* sees one provider state throughout.
Disturbed == IF preload.active THEN [preload EXCEPT !.clean = FALSE, !.rerun = FALSE] ELSE preload

\* --------------------------------------------- direct SecretsManager calls
\* Faulty variant: the swap empties the private cache (C12 rejects it).
SetProviderClearsCache(pl) ==
    /\ pl # plugin
    /\ budget.swaps < MaxSwaps
    /\ plugin' = pl
    /\ cache' = NoEntries
    /\ budget' = [budget EXCEPT !.swaps = @ + 1]
    /\ preload' = Disturbed
    /\ settled' = FALSE
    /\ w' = KeptWrapper
    /\ obs' = KeptObs
    /\ issued' = NoIssue
    /\ UNCHANGED <<initialized, publicCache, preloadExecuted, env, gcpMode, files, watch,
                   refs, log, conf, retrieved, pending>>
\* secretsCache.setSecretsPlugin(plugin)
SetProvider(pl) ==
    /\ pl # plugin
    /\ budget.swaps < MaxSwaps
    /\ plugin' = pl
    /\ budget' = [budget EXCEPT !.swaps = @ + 1]
    /\ preload' = Disturbed
    /\ settled' = FALSE
    /\ w' = KeptWrapper
    /\ obs' = KeptObs
    /\ issued' = NoIssue
    /\ UNCHANGED <<initialized, cache, publicCache, preloadExecuted, env, gcpMode, files, watch,
                   refs, log, conf, retrieved, pending>>

\* secretsCache.loadSecret(key)
LoadAsync(key) ==
    /\ initialized' = TRUE
    /\ w' = KeptWrapper
    /\ obs' = KeptObs
    /\ IF InitializeThrows
       THEN /\ issued' = NoIssue
            /\ UNCHANGED <<cache, publicCache, env, pending>>
       ELSE /\ cache' = CacheAfterInit
            /\ publicCache' = PublicAfterInit
            /\ env' = EnvAfterInit
            /\ IF CacheAfterInit[key].has \/ ProviderLookupThrows(plugin)
               THEN /\ issued' = NoIssue
                    /\ UNCHANGED pending
               ELSE /\ CanCall(pending, {GetSecretCall(key, "direct", EnvAfterInit)})
                    /\ pending' = pending \cup {GetSecretCall(key, "direct", EnvAfterInit)}
                    /\ issued' = Issue("direct", {key})
    /\ UNCHANGED <<plugin, preloadExecuted, gcpMode, files, watch, refs, log, conf, retrieved, preload, settled, budget>>

\* secretsCache.loadSecretSync(key)
LoadSync(key) ==
    /\ initialized' = TRUE
    /\ w' = KeptWrapper
    /\ obs' = KeptObs
    /\ IF InitializeThrows
       THEN /\ issued' = NoIssue
            /\ UNCHANGED <<cache, publicCache, env>>
       ELSE /\ publicCache' = PublicAfterInit
            /\ env' = EnvAfterInit
            /\ IF CacheAfterInit[key].has \/ ~HasGetSecretSync
               THEN /\ cache' = CacheAfterInit
                    /\ issued' = NoIssue
               ELSE /\ issued' = Issue("sync", {key})
                    /\ cache' = IF GetSecretSyncAnswer(key, EnvAfterInit).has
                                THEN [CacheAfterInit EXCEPT ![key] = GetSecretSyncAnswer(key, EnvAfterInit)]
                                ELSE CacheAfterInit
    /\ UNCHANGED <<plugin, preloadExecuted, gcpMode, files, watch, refs, log, conf, retrieved, pending, preload,
                   settled, budget>>

\* ------------------------------------------------------- the environment
\* The application assigns process.env[key].
SetEnv(key, v) ==
    /\ budget.envWrites < MaxEnvWrites
    /\ env[key] # Some(v)
    /\ env' = [env EXCEPT ![key] = Some(v)]
    /\ budget' = [budget EXCEPT !.envWrites = @ + 1]
    /\ preload' = Disturbed
    /\ settled' = FALSE
    /\ w' = KeptWrapper
    /\ obs' = KeptObs
    /\ issued' = NoIssue
    /\ UNCHANGED <<initialized, cache, publicCache, plugin, preloadExecuted, gcpMode, files, watch,
                   refs, log, conf, retrieved, pending>>

\* The Google Cloud service or the plugin's client changes state (followed
\* only while the plugin is active or has a call in flight: a change made
\* earlier shows no differently from one made then).
SetGcpMode(m) ==
    /\ budget.envWrites < MaxEnvWrites
    /\ plugin = GcpPluginName \/ \E p \in pending : p.plugin = GcpPluginName
    /\ m # gcpMode
    /\ gcpMode' = m
    /\ budget' = [budget EXCEPT !.envWrites = @ + 1]
    /\ preload' = Disturbed
    /\ settled' = FALSE
    /\ w' = KeptWrapper
    /\ obs' = KeptObs
    /\ issued' = NoIssue
    /\ UNCHANGED <<initialized, cache, publicCache, plugin, preloadExecuted, env, files, watch,
                   refs, log, conf, retrieved, pending>>

\* ConsoleUtils.setDebug(debug), as config() calls it with its debug option
SetDebug(enabled) ==
    /\ enabled # log.debug
    /\ log' = [log EXCEPT !.debug = enabled]
    /\ w' = KeptWrapper
    /\ obs' = KeptObs
    /\ issued' = NoIssue
    /\ UNCHANGED <<initialized, cache, publicCache, plugin, preloadExecuted, env, gcpMode, files,
                   watch, refs, conf, pending, preload, retrieved, settled, budget>>

\* ---------------------------------------------------------------- config
\* loadEnvFile / loadSecretsFile: the entries of one file that are loaded
\* (an entry is skipped when override is off and process.env has the key),
\* and process.env afterwards.
LoadFileResult(fileMap, override, envNow) ==
    [k \in Keys |-> IF fileMap[k].has /\ (override \/ ~envNow[k].has) THEN fileMap[k] ELSE Absent]
EnvAfterLoad(fileMap, override, envNow) ==
    [k \in StoreKeys |->
        IF k \in Keys /\ fileMap[k].has /\ (override \/ ~envNow[k].has) THEN fileMap[k] ELSE envNow[k]]
\* { ...a, ...b }
Merge(a, b) == [k \in Keys |-> IF b[k].has THEN b[k] ELSE a[k]]

\* config(options), steps 1 to 4: .env is loaded, then .secrets, and the
\* two results are merged (no environment-specific and no public files).
\* With expand the call goes on to expandVariables, otherwise it returns.
ConfigLoad(override, expand) ==
    LET envBase == LoadFileResult(files.dotenv, override, env)
        env1 == EnvAfterLoad(files.dotenv, override, env)
        secretsBase == LoadFileResult(files.secrets, override, env1)
        env2 == EnvAfterLoad(files.secrets, override, env1)
    IN  /\ conf.phase # "expanding"
        /\ env' = env2
        /\ conf' = [phase |-> IF expand THEN "expanding" ELSE "returned",
                    result |-> Merge(envBase, secretsBase), override |-> override]
        /\ w' = KeptWrapper
        /\ obs' = KeptObs
        /\ issued' = NoIssue
        /\ UNCHANGED <<initialized, cache, publicCache, plugin, preloadExecuted, gcpMode, files,
                       watch, refs, log, pending, preload, retrieved, settled, budget>>

\* expandVariables: value.replace(/\$\{([^}]+)\}/g, ...) replaces every
\* ${NAME} by vars[NAME], or by the empty string when vars has no NAME; the
\* text put in is not scanned again in the same replace.
\* Position of the first "}" after "${" (0: none).
ClosePos(s) ==
    IF \E j \in 3..Len(s) : s[j] = "}"
    THEN CHOOSE j \in 3..Len(s) : s[j] = "}" /\ \A i \in 3..(j - 1) : s[i] # "}"
    ELSE 0
VarValue(vmap, name) == IF name \in Keys /\ vmap[name].has THEN vmap[name].v ELSE <<>>
RECURSIVE ReplaceRefs(_, _)
ReplaceRefs(s, vmap) ==
    IF s = <<>> THEN <<>>
    ELSE IF StartsWith(s, <<"$","{">>) /\ ClosePos(s) > 3
         THEN VarValue(vmap, SubSeq(s, 3, ClosePos(s) - 1))
                 \o ReplaceRefs(SubSeq(s, ClosePos(s) + 1, Len(s)), vmap)
         ELSE <<Head(s)>> \o ReplaceRefs(Tail(s), vmap)

\* Object.keys(vmap): the order the keys are visited in.
ExpandOrder == <<KPublicA, KDb, KDot>>
\* One run of the for loop: each key's value is replaced in turn, later
\* keys seeing the values already replaced; a value that outgrows the
\* engine's limit makes replace throw, which ends the run there.
RECURSIVE ExpandFrom(_, _)
ExpandFrom(vmap, i) ==
    IF i > Len(ExpandOrder) THEN [vmap |-> vmap, threw |-> FALSE]
    ELSE LET k == ExpandOrder[i]
             newValue == ReplaceRefs(vmap[k].v, vmap)
         IN  IF ~vmap[k].has THEN ExpandFrom(vmap, i + 1)
             ELSE IF Len(newValue) > MaxValueLen THEN [vmap |-> vmap, threw |-> TRUE]
             ELSE ExpandFrom([vmap EXCEPT ![k] = Some(newValue)], i + 1)

\* One iteration of "while (changed)": the changed values are assigned to
\* vars and to process.env; when no value changed the loop ends and config
\* returns, otherwise the loop goes round again.
ExpandPass ==
    LET r == ExpandFrom(conf.result, 1)
    IN  /\ conf.phase = "expanding"
        /\ conf' = [conf EXCEPT !.result = r.vmap,
                                !.phase = IF r.threw THEN "threw"
                                          ELSE IF r.vmap = conf.result THEN "returned"
                                          ELSE "expanding"]
        /\ env' = [k \in StoreKeys |->
                      IF k \in Keys /\ r.vmap[k] # conf.result[k] THEN r.vmap[k] ELSE env[k]]
        /\ w' = KeptWrapper
        /\ obs' = KeptObs
        /\ issued' = NoIssue
        /\ UNCHANGED <<initialized, cache, publicCache, plugin, preloadExecuted, gcpMode, files,
                       watch, refs, log, pending, preload, retrieved, settled, budget>>

\* ------------------------------------------------------ the file watcher
\* config({ override: true }): every value of the files is assigned to
\* process.env.
EnvAfterConfig ==
    [k \in StoreKeys |-> IF k \in Keys /\ files.map[k].has THEN files.map[k] ELSE env[k]]

\* A configuration file is edited on disk; chokidar notices a change of a
\* file it watches.
FileWrite(key, v) ==
    /\ files.map[key] # Some(v)
    /\ files' = [files EXCEPT !.map[key] = Some(v)]
    /\ watch' = [watch EXCEPT !.changed = watch.active]
    /\ w' = KeptWrapper
    /\ obs' = KeptObs
    /\ issued' = NoIssue
    /\ UNCHANGED <<initialized, cache, publicCache, plugin, preloadExecuted, env, gcpMode,
                   refs, log, conf, pending, preload, retrieved, settled, budget>>

\* The watcher's change handler: config({ override: true, expand: true,
\* watch: false }) runs again and its result is dropped; the cache maps of
\* the SecretsManager are not touched.  (A file that cannot be decrypted
\* makes config throw before anything is assigned.)
Reload ==
    /\ watch.changed
    /\ watch' = [watch EXCEPT !.changed = FALSE]
    /\ env' = IF files.fails THEN env ELSE EnvAfterConfig
    /\ preload' = Disturbed
    /\ settled' = FALSE
    /\ w' = KeptWrapper
    /\ obs' = KeptObs
    /\ issued' = NoIssue
    /\ UNCHANGED <<initialized, cache, publicCache, plugin, preloadExecuted, gcpMode, files,
                   refs, log, conf, pending, retrieved, budget>>

\* ------------------------------------------------------- specifications
Next ==
    \/ \E key \in MainKeys : Read(key)
    \/ \E p \in pending : FetchReturn(p)
    \/ ValueOfW
    \/ AwaitW
    \/ PreloadStart
    \/ PreloadFinish
    \/ \E pl \in Plugins : SetProvider(pl)
    \/ \E key \in MainKeys : LoadAsync(key)
    \/ \E key \in MainKeys : LoadSync(key)
    \/ \E key \in {KDb}, v \in EnvWriteValues : SetEnv(key, v)
    \/ \E m \in {"ok", "down", "broken"} : SetGcpMode(m)

Spec == Init /\ [][Next]_vars

\* -------------------------------------------- the validation chain alone
\* File contents that exercise the wrapper methods: numbers, booleans,
\* padded and empty strings, no file at all, and files that cannot be
\* decrypted.
VPadded == <<" ","a"," ">>
VTrue == <<"T","r","u","e">>
VFalse == <<"F","A","L","S","E">>
VDecimal == <<"1",".","5">>
ChainFileConfigs ==
    { [map |-> NoEntries, fails |-> FALSE],
      [map |-> [NoEntries EXCEPT ![KPublicA] = Some(V12), ![KDb] = Some(VPadded)], fails |-> FALSE],
      [map |-> [NoEntries EXCEPT ![KPublicA] = Some(VEmpty), ![KDb] = Some(VTrue)], fails |-> FALSE],
      [map |-> [NoEntries EXCEPT ![KPublicA] = Some(VPub), ![KDb] = Some(VEmpty)], fails |-> FALSE],
      [map |-> [NoEntries EXCEPT ![KPublicA] = Some(VFalse), ![KDb] = Some(VDecimal)], fails |-> FALSE],
      [map |-> [NoEntries EXCEPT ![KPublicA] = Some(VPub)], fails |-> TRUE] }

\* The method calls the application chains (numbers scaled by DecimalScale).
ChainOps ==
    { Op("required"), Op("notEmpty"), Op("trim"), Op("toUpperCase"),
      OpXY("lengthBetween", 1, 2),
      OpRegex(PatDigits, FALSE, FALSE), OpRegex(PatDigits, TRUE, FALSE),
      OpRegex(PatToken, FALSE, TRUE), OpRegex(PatDigits, TRUE, TRUE),
      Op("number"), Op("boolean"), Op("json"),
      OpXY("min", 2 * DecimalScale, 0), Op("positive"), Op("integer"),
      Op("true") }

InitChain == InitWith(ChainFileConfigs, { {KDb} })

NextChain ==
    \/ \E key \in MainKeys : Read(key)
    \/ \E p \in pending : FetchReturn(p)
    \/ \E op \in ChainOps : ApplyOp(op, MaxChain)
    \/ ValueOfW
    \/ AwaitW
    \/ PreloadStart
    \/ PreloadFinish
    \/ \E key \in {KDb}, v \in EnvWriteValues : SetEnv(key, v)

SpecChain == InitChain /\ [][NextChain]_vars

\* ------------------------------------------------- provider key names
\* Loads of every key, those the provider's format does not accept
\* included, under each provider.
InitNames == InitWith(FileConfigs, { {} })

NextNames ==
    \/ \E key \in Keys : Read(key)
    \/ \E key \in Keys : LoadAsync(key)
    \/ \E p \in pending : FetchReturn(p)
    \/ \E pl \in Plugins : SetProvider(pl)
    \/ \E enabled \in BOOLEAN : SetDebug(enabled)
    \/ \E key \in Keys : LoadSync(key)
    \/ \E v \in EnvWriteValues : SetEnv(KDot, v)

SpecNames == InitNames /\ [][NextNames]_vars

\* ------------------------------------------------------ watched files
InitWatch == InitWith(FileConfigs, { {KDb} })

NextWatch ==
    \/ \E key \in MainKeys : Read(key)
    \/ \E p \in pending : FetchReturn(p)
    \/ ValueOfW
    \/ AwaitW
    \/ PreloadStart
    \/ PreloadFinish
    \* what an edit writes into a configuration file
    \/ \E key \in MainKeys, v \in {V7} : FileWrite(key, v)
    \/ Reload

SpecWatch == InitWatch /\ [][NextWatch]_vars

\* ------------------------------------------------------------- config()
\* The .env and the .secrets file, with the mapping they merge to.
ConfigFile(dotenv, secrets) ==
    [map |-> Merge(dotenv, secrets), fails |-> FALSE, dotenv |-> dotenv, secrets |-> secrets]
ConfigFiles ==
    LET VRefPublic == <<"$","{","P","U","B","L","I","C","_","A","}">>
        VRefDb == <<"$","{","D","B","}">>
        VRefSelf == <<"x","$","{","D","B","}">>
        VRefUndefined == <<"a","$","{","a",".","b","}">>
    IN
    { ConfigFile([NoEntries EXCEPT ![KDb] = Some(V12)], [NoEntries EXCEPT ![KDb] = Some(V42)]),
      ConfigFile([NoEntries EXCEPT ![KPublicA] = Some(VPub), ![KDb] = Some(VRefPublic)], NoEntries),
      ConfigFile([NoEntries EXCEPT ![KPublicA] = Some(VRefDb)], [NoEntries EXCEPT ![KDb] = Some(VRefPublic)]),
      ConfigFile([NoEntries EXCEPT ![KDb] = Some(VRefUndefined)], [NoEntries EXCEPT ![KPublicA] = Some(VPub)]),
      ConfigFile([NoEntries EXCEPT ![KPublicA] = Some(VPub)], [NoEntries EXCEPT ![KDb] = Some(VRefSelf)]) }


\* The application imported the library with auto-configuration switched
\* off and calls config() itself.
InitConfig ==
    /\ initialized = FALSE
    /\ cache = NoEntries
    /\ publicCache = NoEntries
    /\ plugin = EnvPluginName
    /\ preloadExecuted = FALSE
    /\ files \in ConfigFiles
    \* what process.env holds before the first config() call
    /\ env \in { [k \in StoreKeys |-> Absent],
                 [k \in StoreKeys |-> IF k = KDb THEN Some(V7) ELSE Absent],
                 [k \in StoreKeys |-> IF k = KPublicA THEN Some(V12) ELSE Absent] }
    /\ gcpMode = "ok"
    /\ watch = [active |-> FALSE, changed |-> FALSE]
    /\ refs = {}
    /\ conf = NoConf
    /\ log = NoLog
    /\ pending = {}
    /\ preload = NoPreload
    /\ w = NoWrapper
    /\ obs = NoObs
    /\ issued = NoIssue
    /\ retrieved = {}
    /\ settled = FALSE
    /\ budget = NoBudget

NextConfig ==
    \/ \E override \in BOOLEAN, expand \in BOOLEAN : ConfigLoad(override, expand)
    \/ ExpandPass

SpecConfig == InitConfig /\ [][NextConfig]_vars

\* ================================================================ claims
\* A wrapper the proxy returned with a synchronous value, and whatever was
\* chained on it.
SyncPresentOrigins == {"public", "cached", "miss"}
HoldsSyncWrapper == w.variant # "none" /\ w.origin \in SyncPresentOrigins

\* C1: for a wrapper returned with a synchronous value and any chain of
\* operators applied to it, the two channels agree: the chain throws
\* synchronously at operator i exactly when the promise rejects at operator
\* i, and otherwise the synchronous coercion equals the awaited value.
C1_ChannelsAgree ==
    HoldsSyncWrapper =>
        IF w.threwAt = 0
        THEN ValueOf(w) = Awaited(w)
        ELSE RunAsync(w.src.v, w.steps).at = w.threwAt

\* A wrapper the proxy just returned: nothing chained on it yet.
HoldsFreshWrapper == w.variant # "none" /\ w.steps = <<>>
PublicValue(key) == StrV(IF publicCache[key].has THEN publicCache[key].v ELSE <<>>)

\* C2: whenever a read of a PUBLIC_ key returned a wrapper (before or after
\* preload, the key in the public map or not), coercing it synchronously
\* does not throw and gives the value awaiting it gives: the public map's
\* value for the key, or the empty string when the key is absent.
C2_PublicReadAgrees ==
    (HoldsFreshWrapper /\ IsPublicKey(w.key)) =>
        /\ ValueOf(w) = Returned(PublicValue(w.key))
        /\ Awaited(w) = Returned(PublicValue(w.key))
        /\ obs.sync \in {NoOutcome, Returned(PublicValue(w.key))}
        /\ obs.async \in {NoOutcome, Returned(PublicValue(w.key))}
\* A public key held by the public map was read after preload, coerced and
\* awaited.
C2_Witness ==
    /\ HoldsFreshWrapper /\ IsPublicKey(w.key)
    /\ preloadExecuted /\ publicCache[w.key].has
    /\ obs.sync.st = "value" /\ obs.async.st = "value"

\* C3: across proxy reads, preloadAllSecrets, loadSecret / loadSecretSync
\* and setSecretsPlugin, the provider's fetch is never invoked for a key
\* that is present in the public map.
C3_NoFetchForPublicKey == \A k \in issued.keys : ~publicCache[k].has

\* C4: the private and the public cache are disjoint: no key is in both,
\* every key of the public map has the PUBLIC_ prefix and no key of the
\* private map has it.
C4_CachesDisjoint ==
    \A k \in Keys :
        /\ ~(cache[k].has /\ publicCache[k].has)
        /\ publicCache[k].has => IsPublicKey(k)
        /\ cache[k].has => ~IsPublicKey(k)

\* The error valueOf raises names the key and tells the caller to await or
\* to run preloadAllSecrets first.
IsSyncAccessErrorFor(o, key) ==
    /\ o.st = "throw"
    /\ o.err.rule = "sync_without_preload"
    /\ o.err.key = key
    /\ o.err.hintAwait /\ o.err.hintPreload
\* The key of the wrapper is in neither cache map and no preload has run
\* (both maps only grow and the flag is never reset, so this held when the
\* wrapper was built as well).
InNeitherCacheBeforePreload ==
    HoldsFreshWrapper /\ ~cache[w.key].has /\ ~publicCache[w.key].has /\ ~preloadExecuted

\* C5 as stated, for every key: in neither cache map and no preload run,
\* coercing the wrapper of secrets.K synchronously throws the
\* sync-access-without-preload error naming K.
C5_AnyKeyThrows ==
    InNeitherCacheBeforePreload =>
        /\ IsSyncAccessErrorFor(ValueOf(w), w.key)
        /\ obs.sync.st # "none" => IsSyncAccessErrorFor(obs.sync, w.key)
\* C5 amended: the same for every key without the PUBLIC_ prefix (a PUBLIC_
\* key absent from the public map coerces to the empty string).
C5_PrivateKeyThrows ==
    (InNeitherCacheBeforePreload /\ ~IsPublicKey(w.key)) =>
        /\ IsSyncAccessErrorFor(ValueOf(w), w.key)
        /\ obs.sync.st # "none" => IsSyncAccessErrorFor(obs.sync, w.key)
\* An uncached private key was read before any preload and coerced.
C5_Witness ==
    /\ InNeitherCacheBeforePreload /\ ~IsPublicKey(w.key)
    /\ obs.sync.st = "throw"

\* C6: awaiting secrets.K for an uncached private key before any preload
\* always fulfils, with the provider's value or with the empty string when
\* the provider reports absent or its fetch fails; a provider failure never
\* reaches the caller as a rejection and leaves the cache unchanged.
C6_ProviderFailureAbsorbed ==
    [][ /\ (w'.variant # "none" /\ w'.steps = <<>> /\ w'.sync.t = "undef")
              => w'.src.kind # "rejected"
        /\ \A p \in pending :
              (p.owner = "proxy" /\ FetchReturn(p)) =>
                  /\ w'.src = LoadedSrc(GetSecretAnswer(p).e)
                  /\ GetSecretAnswer(p).throws => cache' = cache ]_vars

\* The read of key found the manager usable, the preload flag set and the
\* private key absent from the (initialised) cache.
ReadsMissAfterPreload(key) ==
    /\ preloadExecuted
    /\ ~IsPublicKey(key)
    /\ ~InitializeThrows
    /\ ~CacheAfterInit[key].has
    /\ Read(key)

EnvSatisfiesChain == env[w.key].has /\ env[w.key].v # <<>> /\ RunAsync(StrV(env[w.key].v), w.steps).ok

\* C8: after preloadAllSecrets completed, for a private key that is not in
\* the cache while the active source holds a non-empty value v for it at
\* the time of access, awaiting secrets.K with validators v satisfies
\* fulfils with v.  (A wrapper built with a synchronous value is dropped
\* before the cache or the environment changes again, so the state shown
\* is the state at the access.)
C8_LateValueServed ==
    (/\ w.variant # "none" /\ ~IsPublicKey(w.key) /\ w.origin # "load"
     /\ preloadExecuted /\ ~cache[w.key].has
     /\ plugin = EnvPluginName /\ EnvSatisfiesChain)
    => /\ w.threwAt = 0
       /\ Awaited(w) = Returned(RunAsync(StrV(env[w.key].v), w.steps).v)

C10_PreloadIdempotent ==
    [][ /\ (settled /\ PreloadStart) =>
              /\ cache' = cache /\ publicCache' = publicCache
              /\ \A k \in issued'.keys : ~cache[k].has
        /\ \A p \in pending :
              (p.owner = "preload" /\ preload.rerun /\ FetchReturn(p)) =>
                  cache' = cache /\ publicCache' = publicCache
        /\ (preload.rerun /\ PreloadFinish) =>
              cache' = cache /\ publicCache' = publicCache ]_vars
\* A second run fetched the referenced keys that were still uncached and
\* every fetch has returned.
C10_Witness ==
    /\ preload.active /\ preload.rerun
    /\ PreloadPending = {}
    /\ \E k \in refs : ~cache[k].has

\* The read of key found the manager usable and the private key in the
\* (initialised) cache.
ReadsCachedKey(key) ==
    /\ ~IsPublicKey(key)
    /\ ~InitializeThrows
    /\ CacheAfterInit[key].has
    /\ Read(key)

\* C11: reading a private key that is in the private cache at the access
\* (a key of the local files in particular) returns a wrapper whose
\* synchronous and awaited values are both the cached value, whatever the
\* active provider holds for the key, and the provider is not called.
C11_CachedValueServed ==
    [][ \A key \in MainKeys :
            ReadsCachedKey(key) =>
                /\ w'.key = key
                /\ ValueOf(w') = Returned(StrV(CacheAfterInit[key].v))
                /\ w'.src.kind = "val"
                /\ Awaited(w') = Returned(StrV(CacheAfterInit[key].v))
                /\ issued'.keys = {}
                /\ pending' = Detached(pending)
                /\ cache' = CacheAfterInit ]_vars
\* A key of the local files was read, coerced and awaited while the active
\* provider holds another value for it.
C11_Witness ==
    /\ HoldsFreshWrapper /\ w.origin = "cached"
    /\ files.map[w.key].has /\ cache[w.key] = files.map[w.key]
    /\ plugin = GcpPluginName /\ gcpMode = "ok"
    /\ GcpStore[w.key].has /\ GcpStore[w.key] # cache[w.key]
    /\ obs.sync = Returned(StrV(cache[w.key].v))
    /\ obs.async = Returned(StrV(cache[w.key].v))

\* C12: setSecretsPlugin changes only the active provider: both cache
\* maps, the initialized marker and the preload flag are unchanged, so the
\* wrapper a read builds for a key cached before the swap carries the
\* pre-swap value afterwards.
C12_SwapKeepsCaches ==
    [][ \A pl \in Plugins :
            SetProvider(pl) =>
                /\ plugin' = pl
                /\ cache' = cache /\ publicCache' = publicCache
                /\ initialized' = initialized
                /\ preloadExecuted' = preloadExecuted
                /\ \A k \in Keys :
                      /\ cache[k].has =>
                            cache'[k].has /\ CachedWrapper(k, cache') = CachedWrapper(k, cache)
                      /\ publicCache[k].has =>
                            PublicWrapper(k, publicCache') = PublicWrapper(k, publicCache) ]_vars
\* The provider was swapped during a preload run (nothing else disturbed
\* it), after the run had filled both maps from the files.
C12_Witness ==
    /\ preload.active /\ ~preload.clean /\ budget.envWrites = 0
    /\ plugin # EnvPluginName
    /\ initialized
    /\ \E k \in Keys : cache[k].has /\ cache[k] = files.map[k]
    /\ \E k \in Keys : publicCache[k].has

\* C13: an operator called on a wrapper whose synchronous value is absent
\* (the wrapper of an uncached key read before preload, and every wrapper
\* chained from it) does not throw synchronously and returns a wrapper
\* whose synchronous value is absent as well.
C13_AbsentSyncNeverThrows ==
    (w.variant # "none" /\ w.origin = "load") =>
        /\ w.threwAt = 0
        /\ w.sync.t = "undef"

\* C14: whatever the display name of the active provider, loadSecret of a
\* key that is not in the cache calls that provider's getSecret for the
\* key.
C14_AnyProviderIsCalled ==
    [][ \A key \in MainKeys :
            (~InitializeThrows /\ ~CacheAfterInit[key].has /\ LoadAsync(key))
                => issued' = Issue("direct", {key}) ]_vars

\* The wrapper a method was called on: w without its last step.
Receiver(wr) == [wr EXCEPT !.steps = SubSeq(wr.steps, 1, Len(wr.steps) - 1)]
LastOp(wr) == wr.steps[Len(wr.steps)].op
\* A string wrapper returned by required().
IsRequiredResult(wr) ==
    /\ wr.variant = "str" /\ wr.threwAt = 0
    /\ wr.steps # <<>> /\ LastOp(wr).name = "required"

\* C15: required() on a string wrapper whose value is the empty string
\* (an empty stored value, a key absent from every source, an emptied
\* chain result) never yields a value: called with the synchronous value
\* present it throws at the call, and the wrapper it returns when only the
\* promise carries the value rejects once awaited; both are the
\* validation error of required().
C15_RequiredRejectsEmpty ==
    [][ /\ (w.variant = "str" /\ w.sync.t = "str" /\ w.sync.s = <<>>
             /\ ApplyOp(Op("required"), MaxChain))
            => /\ w'.threwAt = Len(w'.steps)
               /\ w'.err.rule = "required"
        /\ (IsRequiredResult(w') /\ w'.src.kind = "val"
             /\ Awaited(Receiver(w')) = Returned(StrV(<<>>)))
            => /\ Awaited(w').st = "throw"
               /\ Awaited(w').err.rule = "required" ]_vars
\* A key absent from every source was read before preload, required() was
\* chained, the provider answered undefined and the await rejected.
C15_Witness ==
    /\ IsRequiredResult(w) /\ w.origin = "load" /\ Len(w.steps) = 1
    /\ w.src.kind = "val" /\ ~w.src.found
    /\ obs.async.st = "throw" /\ obs.async.err.rule = "required"

\* C16: the error a chain operator raises, thrown at the call or carried by
\* the rejected promise, has a message that contains the name of the key
\* being validated.
C16_ValidationErrorNamesKey ==
    /\ (w.variant # "none" /\ w.threwAt # 0) => w.err.key = w.key
    /\ (w.variant # "none" /\ w.threwAt = 0 /\ w.src.kind = "val"
         /\ ~RunAsync(w.src.v, w.steps).ok)
        => RunAsync(w.src.v, w.steps).err.key = w.key

\* C17: the name loadSecret asks a provider for, normalised when the key
\* is not in the provider's format, is in the provider's format:
\* validateSecretName(provider, normalizeSecretName(provider, key)).
C17_NormalizedNameIsValid ==
    \A p \in pending :
        /\ p.pkey = ProviderSecretName(p.plugin, p.key)
        /\ validateSecretName(providerMap(p.plugin), normalizeSecretName(providerMap(p.plugin), p.key))

\* C18: regex(p, msg) with a custom message, called on a string wrapper
\* with value v: when p matches v the result carries v unchanged on both
\* paths; otherwise the call throws, and the promise rejects, with an error
\* whose message is exactly msg.  Whatever the flags of p.
C18_RegexCustomMessage ==
    (/\ HoldsSyncWrapper /\ w.steps # <<>>
     /\ LastOp(w).name = "regex" /\ LastOp(w).msg
     /\ Awaited(Receiver(w)).st = "value")
    => LET v == Awaited(Receiver(w)).v
       IN  IF PatternMatchesWhole(LastOp(w).src, v.s)
           THEN /\ w.threwAt = 0
                /\ ValueOf(w) = Returned(v)
                /\ Awaited(w) = Returned(v)
           ELSE /\ w.threwAt = Len(w.steps)
                /\ w.err = CustomErr("regex")
                /\ Awaited(w) = Threw(CustomErr("regex"))

EqualsIgnoringCase(s, t) ==
    Len(s) = Len(t) /\ \A i \in 1..Len(s) : ToLowerChar(s[i]) = ToLowerChar(t[i])
\* What boolean() has to give for the string s: TRUE, FALSE, or a failure.
BooleanOf(s) ==
    IF EqualsIgnoringCase(s, STrue) THEN Returned(BoolV(TRUE))
    ELSE IF EqualsIgnoringCase(s, SFalse) THEN Returned(BoolV(FALSE))
    ELSE Threw(ValidationErr("boolean"))

C20_ReadAfterReloadIsFresh ==
    [][ \A key \in MainKeys :
            (/\ watch.active /\ ~watch.changed
             /\ files.map[key].has
             /\ Read(key))
            => (w'.src.kind = "val" =>
                    /\ Awaited(w') = Returned(StrV(files.map[key].v))
                    /\ ValueOf(w') = Returned(StrV(files.map[key].v))) ]_vars

\* C21: for every key defined in both the .env and the .secrets file, the
\* mapping config() builds holds the .secrets value, whatever the override
\* option and whatever process.env held before.
C21_SecretsFileWins ==
    [][ \A override \in BOOLEAN, expand \in BOOLEAN :
            ConfigLoad(override, expand) =>
                \A k \in Keys :
                    (files.dotenv[k].has /\ files.secrets[k].has)
                        => conf'.result[k] = files.secrets[k] ]_vars

\* C24: expandVariables comes to its end for every mapping, cyclic
\* references included: the loop never runs a value up to the engine's
\* string limit, so config(), and the initialization that calls it, always
\* completes.
C24_ExpansionCompletes == conf.phase # "threw"

\* C22: reading a property of the secrets proxy returns a wrapper and
\* never throws, in any state: on the first read, which initialises the
\* manager, and when a configuration file cannot be decrypted.
C22_ReadNeverThrows == ~obs.readThrew

C28_InitializedMeansLoaded ==
    initialized =>
        /\ ~files.fails
        /\ \A k \in Keys : files.map[k].has => (cache[k].has \/ publicCache[k].has)

\* C25: during one loadSecret of an uncached key exactly one key-format
\* warning is logged when the key is not in the active provider's format
\* (and so is rewritten), and none when it is.
C25_OneWarningPerRewrite ==
    [][ \A p \in pending :
            FetchReturn(p) =>
                log'.warnings = IF validateSecretName(providerMap(p.plugin), p.key) THEN 0 ELSE 1 ]_vars

\* C26: a completing loadSecret(K) call writes the cache at most once: only
\* when the provider returned a value, that value, under the requested key
\* K and not the provider's form of it, and no other entry changes.
C26_OneWriteUnderRequestedKey ==
    [][ \A p \in pending :
            FetchReturn(p) =>
                LET ans == GetSecretAnswer(p)
                IN  /\ \A k \in Keys \ {p.key} : cache'[k] = cache[k]
                    /\ cache'[p.key] = IF ~ans.throws /\ ans.e.has THEN ans.e ELSE cache[p.key] ]_vars

\* A key whose provider-side name differs was loaded from the Google Cloud
\* store (the environment never held it) and is cached under the requested
\* name.
C26_Witness ==
    /\ cache[KDot] = GcpStore[normalizeSecretName("gcp", KDot)]
    /\ cache[KDot].has
    /\ ~files.map[KDot].has
    /\ ~env[KDot].has
    /\ plugin = GcpPluginName
    /\ ProviderSecretName(plugin, KDot) # KDot

\* C27: private cache entries are write-once: once a key has a value in
\* the private cache no later step changes or removes it, the completion of
\* loadSecret calls already in flight and provider swaps included.
C27_CacheEntriesWriteOnce ==
    [][ \A k \in Keys : cache[k].has => cache'[k] = cache[k] ]_vars

\* C29: for one key and one provider that has both fetch modes, loadSync
\* and loadAsync ask the provider under the same provider-side key, so what
\* a loadSync that reaches the provider caches for the key is what a
\* loadAsync made in its place would cache once it completes.
C29_SyncAndAsyncAgree ==
    [][ \A k \in Keys :
            (LoadSync(k) /\ issued'.by = "sync" /\ plugin = EnvPluginName) =>
                cache'[k] = CacheAfterAnswer(CacheAfterInit, k,
                                GetSecretAnswer(GetSecretCall(k, "direct", EnvAfterInit)))[k] ]_vars

\* C30: number() on a string wrapper whose value is the empty string never
\* yields a number: called with the synchronous value present it throws
\* the conversion error at the call, and the wrapper it returns when only
\* the promise carries the value rejects with that error once awaited.
C30_NumberRejectsEmpty ==
    [][ /\ (w.variant = "str" /\ w.sync.t = "str" /\ w.sync.s = <<>>
             /\ ApplyOp(Op("number"), MaxChain))
            => /\ w'.threwAt = Len(w'.steps)
               /\ w'.err.rule = "number"
        /\ (w'.threwAt = 0 /\ w'.steps # <<>> /\ LastOp(w').name = "number"
             /\ w'.src.kind = "val" /\ Awaited(Receiver(w')) = Returned(StrV(<<>>)))
            => /\ Awaited(w').st = "throw"
               /\ Awaited(w').err.rule = "number" ]_vars

====
